---------------------------- MODULE Spec2Model ----------------------------
(***************************************************************************)
(* A model of aldy/lpinterface.py: the solver factory model(name, solver)  *)
(* and the solution enumerator Gurobi.solutions(), which SCIP and CBC      *)
(* inherit unchanged.                                                      *)
(*                                                                         *)
(* The engines are external.  An engine is modelled by what the adapter    *)
(* sees of it: whether its constructor succeeds, and what optimize()       *)
(* reports for the current constraint set.  Only the binary variables of a *)
(* model are kept (solutions() filters on is_binary); `feas` is the        *)
(* feasible region of the model projected on them and Obj the best         *)
(* objective reachable for a 0/1 assignment.                               *)
(*                                                                         *)
(* Objectives are whole multiples of 5e-6, so SOLVER_PRECISON (1e-5) is 2  *)
(* and an objective may exceed a bound by less than the precision.  The    *)
(* arithmetic is exact: floating-point rounding is not modelled.  gap      *)
(* ranges over whole numbers (gap = 1 is 100%).                            *)
(***************************************************************************)
EXTENDS Integers, Sequences, FiniteSets

\* ---------------------------------------------------------------- bounds
NumVars == 2
MaxLimit == 2

\* lpinterface.py:15, 1e-5 in units of 5e-6
SOLVER_PRECISON == 2

Vars == 1..NumVars
Costs == {-2, 0, 1}
Gaps == {0, 1}
BestObjs == {<<>>, <<1>>}
Backends == {"Gurobi", "SCIP", "CBC"}
Solvers == {"any", "gurobi", "scip", "cbc", "mipcl", "glpk"}
EngineStates == {"ok", "missing", "broken"}
NonOptimal == {"feasible", "unbounded", "abnormal", "not_solved", "unknown"}

VARIABLES
    \* ---- factory: model(name, solver)
    solver,     \* the `solver` argument
    engine,     \* per backend: "ok", "missing" (import fails), "broken" (the engine's constructor raises)
    fpc,        \* position in model()
    built,      \* sequence of the variants whose constructor was called
    ret,        \* the value returned: a backend, "None", or "unset"
    ferr,       \* the exception model() raised, or "none"
    \* ---- enumerator: solutions()
    backend,    \* the adapter class of self
    name,       \* varName of each binary variable, in variables() order
    feas,       \* feasible 0/1 assignments of the model as built (sets of true variables)
    cost,       \* objective coefficient of each binary variable
    gap,        \* argument gap
    best_arg,   \* argument best_obj as the caller passed it: <<>> is None, <<b>> is b
    best_obj,   \* best_obj of the current frame, after line 248
    limit,      \* argument limit; 0 stands for None (and for 0: `not limit`)
    iteration,  \* argument iteration of the current frame
    pc,         \* position of the generator
    cuts,       \* exclusion constraints added so far
    vv,         \* the dict vv of the frame that yielded last
    emitted,    \* the triples yielded so far
    found,      \* the 0/1 assignment behind each yielded triple
    calls,      \* history of the adapter calls solve, change_model, addConstr
    last,       \* outcome of the latest solve
    first,      \* outcome of the first solve
    exc,        \* exception that left the generator, or "none"
    stop        \* why the generator ended, or "none"

fvars == <<solver, engine, fpc, built, ret, ferr>>
evars == <<backend, name, feas, cost, gap, best_arg, best_obj, limit, iteration, pc,
           cuts, vv, emitted, found, calls, last, first, exc, stop>>
vars == <<fvars, evars>>

\* ================================================================ factory

\* The adapter class test_<x> constructs.
Variant(s) ==
    CASE s = "gurobi" -> "Gurobi"
      [] s = "scip" -> "SCIP"
      [] s = "cbc" -> "CBC"
      [] OTHER -> "None"

\* `fname in locals()`: the nested functions test_gurobi, test_scip, test_cbc.
Recognized(s) == s \in {"gurobi", "scip", "cbc"}

\* Outcome of X(name): the instance, ImportError from importlib.import_module,
\* or whatever the engine's own constructor raises.
Construct(b) ==
    CASE engine[b] = "ok" -> "instance"
      [] engine[b] = "missing" -> "ImportError"
      [] OTHER -> "EngineError"

\* Mutant of TestCatches: a bare `except:` in test_<x>.
CatchesAny(e) == TRUE

\* `except ImportError`: the only exception test_<x> handles.
TestCatches(e) == e = "ImportError"

\* test_<x>(name): the instance, None after a caught exception, or the
\* exception that propagates.
TestResult(b) ==
    LET c == Construct(b) IN
    IF c = "instance" THEN [value |-> b, raised |-> "none"]
    ELSE IF TestCatches(c) THEN [value |-> "None", raised |-> "none"]
    ELSE [value |-> "unset", raised |-> c]

FactoryInit ==
    /\ solver \in Solvers
    /\ engine \in [Backends -> EngineStates]
    /\ fpc = "call"
    /\ built = <<>>
    /\ ret = "unset"
    /\ ferr = "none"

\* Value an explicit request returns from test_<solver>(name).
ExplicitReturn(r) == r.value

\* solver != 'any'
Explicit ==
    /\ fpc = "call"
    /\ solver # "any"
    /\ IF Recognized(solver)
       THEN LET r == TestResult(Variant(solver)) IN
            /\ built' = Append(built, Variant(solver))
            /\ ret' = IF r.raised = "none" THEN ExplicitReturn(r) ELSE "unset"
            /\ ferr' = r.raised
       ELSE /\ built' = built
            /\ ret' = "unset"
            /\ ferr' = "Unsupported"
    /\ fpc' = "done"
    /\ UNCHANGED <<solver, engine>>
    /\ UNCHANGED evars

\* One test_<x> call of the 'any' branch, from position `at`; `nxt` follows
\* when the result is None.
AutoTry(at, b, nxt) ==
    /\ fpc = at
    /\ LET r == TestResult(b) IN
       /\ built' = Append(built, b)
       /\ IF r.raised # "none"
          THEN /\ ferr' = r.raised
               /\ ret' = "unset"
               /\ fpc' = "done"
          ELSE /\ ferr' = "none"
               /\ ret' = r.value
               /\ fpc' = nxt
    /\ UNCHANGED <<solver, engine>>

\* model = test_gurobi(name)
AutoGurobi ==
    /\ solver = "any"
    /\ AutoTry("call", "Gurobi", "after_gurobi")
    /\ UNCHANGED evars

\* if model is None: model = test_scip(name)
AutoScip ==
    /\ fpc = "after_gurobi"
    /\ IF ret = "None"
       THEN AutoTry("after_gurobi", "SCIP", "after_scip")
       ELSE /\ fpc' = "after_scip"
            /\ UNCHANGED <<solver, engine, built, ret, ferr>>
    /\ UNCHANGED evars

\* if model is None: model = test_cbc(name)
AutoCbc ==
    /\ fpc = "after_scip"
    /\ IF ret = "None"
       THEN AutoTry("after_scip", "CBC", "after_cbc")
       ELSE /\ fpc' = "after_cbc"
            /\ UNCHANGED <<solver, engine, built, ret, ferr>>
    /\ UNCHANGED evars

\* if model is None: raise Exception('No ILP solver found...'); return model
AutoReturn ==
    /\ fpc = "after_cbc"
    /\ IF ret = "None"
       THEN /\ ferr' = "NoSolver"
            /\ ret' = "unset"
       ELSE UNCHANGED <<ferr, ret>>
    /\ fpc' = "done"
    /\ UNCHANGED <<solver, engine, built>>
    /\ UNCHANGED evars

FNext ==
    \/ Explicit
    \/ AutoGurobi
    \/ AutoScip
    \/ AutoCbc
    \/ AutoReturn

\* ============================================================= enumerator

RECURSIVE SumCost(_)
SumCost(S) ==
    IF S = {} THEN 0
    ELSE LET v == CHOOSE x \in S : TRUE IN cost[v] + SumCost(S \ {v})

\* model.objVal / getObjVal() / Objective().Value() for the assignment A.
Obj(A) == SumCost(A)

\* Objective coefficients: any cost for the first two variables, a unit
\* cost for every further one.
CostMaps == {c \in [Vars -> Costs] : \A v \in Vars : v > 2 => c[v] = 1}

Abs(x) == IF x < 0 THEN -x ELSE x

Max(S) == CHOOSE x \in S : \A y \in S : y <= x

\* Every variable has a name of its own, or the first variable has, once
\* escaped, the name of the second (escape_name deletes characters and
\* truncates, so two names may collide).
NameMaps ==
    {[v \in Vars |-> v]} \cup
    (IF NumVars >= 2 THEN {[v \in Vars |-> IF v = 1 THEN 2 ELSE v]} ELSE {})

\* An exclusion constraint quicksum(vars) <= rhs holds of assignment A.
Satisfies(A, c) == Cardinality(A \cap c.vars) <= c.rhs

\* The assignments the engine may still return: the model plus the cuts cs.
Feasible(cs) == {A \in feas : \A i \in 1..Len(cs) : Satisfies(A, cs[i])}

Optimal(cs) == {A \in Feasible(cs) : \A B \in Feasible(cs) : Obj(A) <= Obj(B)}

\* CBC.solve: `if not self.model.VerifySolution(SOLVER_PRECISON, True): raise`.
\* Only CBC verifies; the verification of a solved model may fail.
VerifyMayFail(b) == b = "CBC"

\* What solve(init) can do on the model with cuts cs: raise NoSolutionsError
\* for an infeasible model, or return the lower-cased status and the
\* objective.  An engine may stop short of optimality (time limit, numerical
\* trouble) with any other status; the objective it then reports is taken to
\* be the best one, and the variable values are read only after 'optimal'.
SolveOutcomes(b, cs) ==
    IF Feasible(cs) = {}
    THEN {[status |-> "infeasible", obj |-> 0, sol |-> {}, raised |-> "NoSolutionsError"]}
    ELSE {[status |-> "optimal", obj |-> Obj(A), sol |-> A, raised |-> "none"] : A \in Optimal(cs)}
         \cup {[status |-> s, obj |-> Obj(A), sol |-> {}, raised |-> "none"] :
                  s \in NonOptimal, A \in Optimal(cs)}
         \cup (IF VerifyMayFail(b)
               THEN {[status |-> "unverified", obj |-> 0, sol |-> {}, raised |-> "NoSolutionsError"]}
               ELSE {})

\* best_obj = obj if best_obj is None else best_obj
AdoptBest(b, obj) == IF b = <<>> THEN <<obj>> ELSE b

\* Mutant of StatusAccepted: the status check left out.
AcceptAnyStatus(s) == TRUE

\* if status != 'optimal': return
StatusAccepted(s) == s = "optimal"

\* Mutant of ExceedsGap: the comparison turned round.
ExceedsGapFlipped(obj, g, best) ==
    LET ub == (1 + g) * best IN
    Abs(obj - ub) >= SOLVER_PRECISON /\ obj < ub

\* ub = (1 + gap) * best_obj
\* if abs(obj - ub) >= SOLVER_PRECISON and obj > ub: return
ExceedsGap(obj, g, best) ==
    LET ub == (1 + g) * best IN
    Abs(obj - ub) >= SOLVER_PRECISON /\ obj > ub

\* vv = {self.varName(v): v for v in self.variables()
\*       if self.is_binary(v) and self.getValue(v) == 1}
\* A dict: of the true variables sharing a name, the last one stays.
VV(A) == [nm \in {name[v] : v \in A} |-> Max({v \in A : name[v] = nm})]

\* sorted_tuple(set(vv.keys())): the canonical form of the set of names.
Selection(d) == DOMAIN d

\* Mutant of Cut: the right-hand side off by one.
CutLoose(d) == [vars |-> {d[nm] : nm \in DOMAIN d}, rhs |-> Cardinality(DOMAIN d)]

\* self.quicksum(vv.values()) <= len(vv) - 1
Cut(d) == [vars |-> {d[nm] : nm \in DOMAIN d}, rhs |-> Cardinality(DOMAIN d) - 1]

\* Mutant of LimitAllows: the limit check off by one.
LimitOffByOne(l, it) == l = 0 \/ it < l

\* if not limit or iteration + 1 < limit
LimitAllows(l, it) == l = 0 \/ it + 1 < l

\* Mutant of Catches: the except clause left out.
CatchesNothing(e) == FALSE

\* except NoSolutionsError: return
Catches(e) == e = "NoSolutionsError"

\* Mutant of CutCalls: the constraint added before the unfreeze hook.
CutCallsSwapped == <<"addConstr", "change_model">>

\* The adapter calls between a passed limit check and the recursive call:
\* self.change_model(); self.addConstr(...)
CutCalls == <<"change_model", "addConstr">>

NoSolve == [status |-> "none", obj |-> 0]

EnumInit ==
    /\ backend \in Backends
    /\ name \in NameMaps
    /\ feas \in SUBSET (SUBSET Vars)
    /\ cost \in CostMaps
    /\ gap \in Gaps
    /\ best_arg \in BestObjs
    /\ best_obj = best_arg
    /\ limit \in 0..MaxLimit
    /\ iteration = 0
    /\ pc = "start"
    /\ cuts = <<>>
    /\ vv = <<>>
    /\ emitted = <<>>
    /\ found = <<>>
    /\ calls = <<>>
    /\ last = NoSolve
    /\ first = NoSolve
    /\ exc = "none"
    /\ stop = "none"

\* The generator ends: `return`, or an exception leaves it.
End(why, e) ==
    /\ pc' = "done"
    /\ stop' = why
    /\ exc' = e
    /\ UNCHANGED <<vv, emitted, found>>

\* One frame of solutions() on the model with cuts cs, from the solve to the
\* yield or to a return; cl is the call history on entry.
Frame(cs, cl) ==
    \E r \in SolveOutcomes(backend, cs) :
        /\ cuts' = cs
        /\ calls' = Append(cl, "solve")
        /\ last' = [status |-> r.status, obj |-> r.obj]
        /\ first' = IF first = NoSolve THEN [status |-> r.status, obj |-> r.obj] ELSE first
        /\ IF r.raised # "none"
           THEN /\ best_obj' = best_obj
                /\ IF Catches(r.raised)
                   THEN End(r.status, "none")
                   ELSE End("raised", r.raised)
           ELSE /\ best_obj' = AdoptBest(best_obj, r.obj)
                /\ IF ~StatusAccepted(r.status)
                   THEN End("status", "none")
                   ELSE IF ExceedsGap(r.obj, gap, best_obj'[1])
                   THEN End("gap", "none")
                   ELSE /\ vv' = VV(r.sol)
                        /\ emitted' = Append(emitted,
                              [status |-> r.status, obj |-> r.obj, sel |-> Selection(vv')])
                        /\ found' = Append(found, r.sol)
                        /\ pc' = "yielded"
                        /\ UNCHANGED <<stop, exc>>

\* The consumer asks for the first element: the outermost frame runs.
Start ==
    /\ pc = "start"
    /\ Frame(cuts, calls)
    /\ UNCHANGED <<backend, name, feas, cost, gap, best_arg, limit, iteration>>
    /\ UNCHANGED fvars

\* The consumer asks for the next element: the limit check after the yield,
\* then the unfreeze hook, the exclusion constraint and the recursive frame.
Resume ==
    /\ pc = "yielded"
    /\ IF LimitAllows(limit, iteration)
       THEN /\ Frame(Append(cuts, Cut(vv)), calls \o CutCalls)
            /\ iteration' = iteration + 1
       ELSE /\ pc' = "done"
            /\ stop' = "limit"
            /\ UNCHANGED <<best_obj, iteration, cuts, vv, emitted, found,
                           calls, last, first, exc>>
    /\ UNCHANGED <<backend, name, feas, cost, gap, best_arg, limit>>
    /\ UNCHANGED fvars

Next ==
    \/ Start
    \/ Resume

\* The enumerator at rest, while the factory runs.
EnumIdle ==
    /\ backend = "Gurobi"
    /\ name = [v \in Vars |-> v]
    /\ feas = {}
    /\ cost = [v \in Vars |-> 0]
    /\ gap = 0
    /\ best_arg = <<>>
    /\ best_obj = <<>>
    /\ limit = 0
    /\ iteration = 0
    /\ pc = "idle"
    /\ cuts = <<>>
    /\ vv = <<>>
    /\ emitted = <<>>
    /\ found = <<>>
    /\ calls = <<>>
    /\ last = NoSolve
    /\ first = NoSolve
    /\ exc = "none"
    /\ stop = "none"

\* The factory has returned the adapter the enumerator runs on.
FactoryDone ==
    /\ solver = "any"
    /\ engine = [b \in Backends |-> "ok"]
    /\ fpc = "done"
    /\ built = <<"Gurobi">>
    /\ ret = "Gurobi"
    /\ ferr = "none"

Init == FactoryDone /\ EnumInit

\* The enumerator on a model as built.
Spec == Init /\ [][Next]_vars

FInit == FactoryInit /\ EnumIdle

\* The factory.
SpecFactory == FInit /\ [][FNext]_vars

\* ================================================================= claims

Count(q, x) == Cardinality({i \in 1..Len(q) : q[i] = x})

Sels == {emitted[i].sel : i \in 1..Len(emitted)}

NamesDistinct == \A v, w \in Vars : name[v] = name[w] => v = w

\* The reference value every gap bound is taken against: the caller's
\* best_obj, or else the objective of the first solve.
Reference == IF best_arg # <<>> THEN best_arg[1] ELSE first.obj

\* The latest solve returned a status and an objective (it did not raise).
Returned(o) == o.status \in NonOptimal \cup {"optimal"}

\* The optimum of the model as built.
OptOrig == Obj(CHOOSE A \in feas : \A B \in feas : Obj(A) <= Obj(B))

\* C1 (as claimed): with no limit, no supplied best and every solve optimal,
\* a finished enumeration has emitted the selection of every feasible 0/1
\* assignment whose objective is at most (1 + gap) * optimum.
C1_Complete ==
    (/\ pc = "done"
     /\ limit = 0
     /\ best_arg = <<>>
     /\ stop \in {"infeasible", "gap"})
    => \A A \in feas :
          Obj(A) <= (1 + gap) * OptOrig => Selection(VV(A)) \in Sels

\* C2 (as claimed): the selection sets of the emitted triples are pairwise
\* distinct.
C2_SelectionsDistinct ==
    \A i, j \in 1..Len(emitted) : emitted[i].sel = emitted[j].sel => i = j

\* C2 (amended): every cut is violated by the assignment just emitted (the
\* empty one included), so the emitted 0/1 assignments are pairwise
\* distinct, and so are the selection sets whenever no two binary variables
\* share a name.
C2_AssignmentsDistinct ==
    /\ \A i \in 1..Len(cuts) : ~Satisfies(found[i], cuts[i])
    /\ \A i, j \in 1..Len(found) : found[i] = found[j] => i = j
    /\ NamesDistinct => C2_SelectionsDistinct

\* Two triples emitted from a model whose variables have distinct names.
C2_Witness ==
    /\ NamesDistinct
    /\ Len(emitted) >= 2
    /\ Len(cuts) >= 1
    /\ emitted[1].sel # emitted[2].sel

\* C3: every emitted objective is at most (1 + gap) * best + SOLVER_PRECISON,
\* where best is the supplied best_obj or else the first solve's objective,
\* and best keeps that value in every later frame.
C3_GapBound ==
    /\ \A i \in 1..Len(emitted) :
          emitted[i].obj <= (1 + gap) * Reference + SOLVER_PRECISON
    /\ Returned(first) => best_obj = <<Reference>>

\* Two triples emitted with no best supplied, the second above the bound by
\* less than the precision.
C3_Witness ==
    /\ Len(emitted) >= 2
    /\ best_arg = <<>>
    /\ emitted[2].obj > (1 + gap) * Reference
    /\ best_obj = <<emitted[1].obj>>

\* C4 (as claimed): no exception leaves the enumerator; a solve that returned
\* any status with an objective within the gap bound has its triple emitted
\* with that status; and the sequence ends only on an infeasible solve, on
\* the gap bound or on the limit.
C4_AnyStatusEmitted ==
    /\ exc = "none"
    /\ (Returned(last) /\ ~ExceedsGap(last.obj, gap, Reference))
          => /\ Len(emitted) = Count(calls, "solve")
             /\ emitted[Len(emitted)].status = last.status
    /\ pc = "done" => stop \in {"infeasible", "gap", "limit"}

\* C4 (amended): no exception leaves the enumerator; the triple of a solve
\* that returned is emitted exactly when its status is 'optimal' and its
\* objective is within the gap bound, so every emitted triple carries
\* 'optimal'; the sequence ends on NoSolutionsError (an infeasible model, or
\* under CBC a solution that fails verification), on a status other than
\* 'optimal', on the gap bound or on the limit.
C4_OptimalOnly ==
    /\ exc = "none"
    /\ Returned(last) =>
          ((Len(emitted) = Count(calls, "solve"))
             <=> (last.status = "optimal" /\ ~ExceedsGap(last.obj, gap, Reference)))
    /\ \A i \in 1..Len(emitted) : emitted[i].status = "optimal"
    /\ pc = "done" => stop \in {"infeasible", "unverified", "status", "gap", "limit"}
    /\ stop = "status" <=> (pc = "done" /\ last.status \in NonOptimal)
    /\ stop = "unverified" => backend = "CBC"

\* A solve after an emitted triple returns 'feasible' and ends the sequence.
C4_Witness ==
    /\ stop = "status"
    /\ last.status = "feasible"
    /\ ~ExceedsGap(last.obj, gap, Reference)
    /\ Len(emitted) >= 1

\* C5 (as claimed): an explicit request returns an adapter of the named
\* variant or raises; it raises UnsupportedBackend for an unrecognized name
\* and raises when the named engine cannot be initialized.
C5_ExplicitRequest ==
    (fpc = "done" /\ solver # "any") =>
        /\ ferr = "none" => (ret \in Backends /\ ret = Variant(solver))
        /\ ~Recognized(solver) => ferr = "Unsupported"
        /\ (Recognized(solver) /\ engine[Variant(solver)] # "ok") => ferr # "none"

Order == <<"Gurobi", "SCIP", "CBC">>

\* C6 (as claimed): an auto request constructs the variants in the order
\* Gurobi, SCIP, CBC, stops at the first whose construction succeeds and
\* returns it, and raises only if the construction of every variant fails.
C6_AutoAnyFailure ==
    (fpc = "done" /\ solver = "any") =>
        /\ built = SubSeq(Order, 1, Len(built))
        /\ \A i \in 1..(Len(built) - 1) : engine[built[i]] # "ok"
        /\ ferr = "none" => (ret = built[Len(built)] /\ engine[ret] = "ok")
        /\ ferr # "none" => \A b \in Backends : engine[b] # "ok"

\* C6 (amended): an auto request constructs the variants in the order Gurobi,
\* SCIP, CBC, goes on to the next only after an ImportError, stops at the
\* first whose construction succeeds and returns it, raises 'No ILP solver
\* found' exactly when every variant raised ImportError, and lets any other
\* exception of a constructor propagate at once.
C6_AutoImportError ==
    (fpc = "done" /\ solver = "any") =>
        /\ built = SubSeq(Order, 1, Len(built))
        /\ built # <<>>
        /\ \A i \in 1..(Len(built) - 1) : engine[built[i]] = "missing"
        /\ ferr = "none" <=> engine[built[Len(built)]] = "ok"
        /\ ferr = "none" => ret = built[Len(built)]
        /\ ferr = "NoSolver" <=> \A b \in Backends : engine[b] = "missing"
        /\ ferr = "EngineError" <=> engine[built[Len(built)]] = "broken"
        /\ ferr # "none" => ret = "unset"

\* Gurobi and SCIP are missing and the auto request returns CBC.
C6_Witness ==
    /\ fpc = "done"
    /\ solver = "any"
    /\ built = Order
    /\ ret = "CBC"
    /\ ferr = "none"

\* C7: an infeasible solve ends the sequence normally: no NoSolutionsError
\* leaves the enumerator, an infeasible first solve leaves the sequence
\* empty, and a later one keeps every triple emitted before it.
C7_InfeasibleEnds ==
    /\ exc = "none"
    /\ last.status = "infeasible" =>
          /\ pc = "done"
          /\ stop = "infeasible"
          /\ Len(emitted) = Count(calls, "solve") - 1
          /\ Len(found) = Len(emitted)
    /\ first.status = "infeasible" => emitted = <<>>

\* Two triples were emitted and the third solve was infeasible.
C7_Witness ==
    /\ last.status = "infeasible"
    /\ pc = "done"
    /\ Len(emitted) = 2
    /\ Len(cuts) = 2

C9_UnfreezeFirst ==
    /\ \A i \in 1..Len(calls) :
          /\ calls[i] = "addConstr" =>
                (i >= 3 /\ calls[i - 1] = "change_model" /\ calls[i - 2] = "solve")
          /\ (calls[i] = "solve" /\ i < Len(calls)) => calls[i + 1] = "change_model"
          /\ calls[i] = "change_model" => (i < Len(calls) /\ calls[i + 1] = "addConstr")
    /\ Len(cuts) = Count(calls, "addConstr")

\* The SCIP adapter has added two exclusion constraints.
C9_Witness ==
    /\ backend = "SCIP"
    /\ Count(calls, "addConstr") = 2
    /\ Count(calls, "change_model") = 2

\* C10 (as claimed): when the first solve is optimal and no best is supplied,
\* at least one triple is emitted and the first carries the optimum.
C10_OptimumFirst ==
    (first.status = "optimal" /\ best_arg = <<>>) =>
        (Len(emitted) >= 1 /\ emitted[1].obj = first.obj)

=============================================================================
